---------------------------- MODULE Spec2Model ----------------------------
(***************************************************************************)
(* bmp2map (src/roms/ppu/bkg/bmp2map.cpp): converts a 256-colour BMP into  *)
(* a flat map of one symbol byte per pixel.                                *)
(*                                                                         *)
(* The model starts with the source file loaded into filecontents (lines   *)
(* 29-34) and follows main line by line: ReadHeader (36-40), Validate      *)
(* (41), Setup (42-47), ExtractRow (47-53, one action per iteration of the *)
(* outer loop), FreeFile (54), Remap (55-58), Emit (59-64).                *)
(*                                                                         *)
(* The code indexes buffers from 0, TLA+ sequences from 1: the byte the    *)
(* code calls contents[i] is contents[i + 1] here.                         *)
(*                                                                         *)
(* A read outside the allocated buffer and an integer division by zero are *)
(* undefined behaviour.  Both are modelled as a choice: the process faults *)
(* (pc = "crashed"), or the read yields some byte of WildVals / the        *)
(* division yields a quotient and the program goes on.  With height = 0    *)
(* the quotient is never used: the loop that reads offset does not run.    *)
(***************************************************************************)
EXTENDS Integers, Sequences, FiniteSets

VARIABLES
    pc,                  \* position in main
    filecontents,        \* the Raw Image Buffer (kept after free, see fileFreed)
    filelen,
    paintoffset, width, height, bitcount, bytebuffer,
    pixelslen, outputlen, wastedpixelsperline,
    outputcontents,      \* the Output Buffer
    outAlloc,            \* outputcontents has been malloc'ed
    j, h, offset,
    fileFreed,           \* free(filecontents) has run
    diag,                \* the messages written to cout by the conversion
    sink,                \* the bytes written to the output file
    emitCount,           \* number of write() calls on the output file
    fault,               \* why the process crashed, "none" if it did not
    reads,               \* history: every index of filecontents read so far
    rowOffs,             \* history: the value of offset at each outer iteration
    steps,               \* history: the steps of main executed so far
    hiBuf, hiOffset, hiLength, hiResult, hiDone,   \* a single call of hiread
    sym0, symOnce, sym, applied                    \* repeated use of the mapping

mainVars == <<pc, filecontents, filelen, paintoffset, width, height, bitcount,
              bytebuffer, pixelslen, outputlen, wastedpixelsperline,
              outputcontents, outAlloc, j, h, offset, fileFreed, diag, sink,
              emitCount, fault, reads, rowOffs, steps>>
hiVars == <<hiBuf, hiOffset, hiLength, hiResult, hiDone>>
mapVars == <<sym0, symOnce, sym, applied>>
vars == <<mainVars, hiVars, mapVars>>

---------------------------------------------------------------------------
(* Bounds of the model *)

MaxW == 2
MaxH == 2
MaxData == 4
HiBufLen == 5
MaxApply == 2

(* Program constants *)

OffPaint == 10
OffWidth == 18
OffHeight == 22
OffBitcount == 28
OffBytebuffer == 34
HeaderLen == OffBytebuffer + 4
ShortLen == HeaderLen - 2
Uninit == -1

Byte == 0..255
PixelVals == {0, 16, 255}
WildVals == {90, 255}
Bitcounts == {8, 24}
PaintOffs == {HeaderLen, HeaderLen + 1}
HiBytes == {0, 1, 127, 128, 255}

---------------------------------------------------------------------------
(* Integer arithmetic of the build: 32-bit int, division truncating to 0.  *)
(* Every value below is kept inside the range of a 32-bit int, so a        *)
(* wrapped result is computed directly rather than by reduction % 2^32.    *)

CDiv(a, b) ==
    IF a >= 0 THEN a \div b ELSE -((-a) \div b)

(* unsigned int(b) << (8 * i) for a byte b and i in 0..3, as the int of    *)
(* the same 32 bits: from bit 31 on the unsigned value 2^31 + r is the int *)
(* r - 2^31.                                                               *)
ShlByte(b, i) ==
    IF i = 3 /\ b >= 128 THEN (b - 256) * (2^24) ELSE b * (2^(8 * i))

---------------------------------------------------------------------------
(* hiread, lines 10-14.  mem is a function from the indices read to bytes. *)
(* k is an int; the shifted byte is an unsigned int, so k += ... forms the *)
(* sum modulo 2^32 and converts it back to int.  Before iteration i the    *)
(* sum is below 2^(8 * i), so the only wrap is the one of ShlByte.         *)

RECURSIVE hireadLoop(_, _, _, _, _)
hireadLoop(mem, off, length, i, k) ==
    IF i < length
    THEN hireadLoop(mem, off, length, i + 1, k + ShlByte(mem[off + i], i))
    ELSE k

hiread(mem, off, length) == hireadLoop(mem, off, length, 0, 0)

---------------------------------------------------------------------------
(* The symbol mapping, lines 56-58 *)

MapKeepsOther(x) ==
    IF x = 255 THEN 0 ELSE IF x = 0 THEN 1 ELSE x

MapSwapped(x) ==
    IF x = 255 THEN 1 ELSE IF x = 0 THEN 0 ELSE 2

Map(x) ==
    IF x = 255 THEN 0 ELSE IF x = 0 THEN 1 ELSE 2

(* The remapping pass, lines 55-58 *)
RemapAll(out, len) ==
    [k \in 1..Len(out) |-> IF k <= len THEN Map(out[k]) ELSE out[k]]

---------------------------------------------------------------------------
(* The arithmetic of main *)

BitcountAlsoTrueColor(bc) == bc \in {8, 24}

(* line 41 *)
BitcountOk(bc) == bc = 8

OutputLenSquare(hh, w) == w * w

(* line 43 *)
OutputLen(hh, w) == hh * w

(* line 44, for hh # 0 *)
Wasted(bb, w, hh) == CDiv(bb - (w * hh), hh)

FirstOffsetNoPadding(plen, w, po, wasted) == plen - w + po

(* line 47 *)
FirstOffset(plen, w, po, wasted) == plen - w + po - wasted

NextOffsetNoPadding(off, w, wasted) == off - w

(* line 48 *)
NextOffset(off, w, wasted) == off - (w + wasted)

(* lines 49-51: the bytes row (read from filecontents) go to out[j..j+w-1] *)
CopyRow(out, jj, row) ==
    [k \in 1..Len(out) |->
        IF k \in (jj + 1)..(jj + Len(row)) THEN row[k - jj] ELSE out[k]]

WrittenButLast(out, len) ==
    IF len > 0 THEN SubSeq(out, 1, len - 1) ELSE <<>>

(* line 61: write(outputhandle, outputcontents, outputlen) *)
Written(out, len) == SubSeq(out, 1, len)

---------------------------------------------------------------------------
(* Reading filecontents *)

InBuf(i) == i \in 0..(filelen - 1)

(* The indices ReadHeader reads, lines 36-40 *)
HdrIdx ==
    (OffPaint..(OffPaint + 3)) \cup (OffWidth..(OffWidth + 3))
      \cup (OffHeight..(OffHeight + 3)) \cup (OffBitcount..(OffBitcount + 1))
      \cup (OffBytebuffer..(OffBytebuffer + 3))

(* The reads of idx, made in ascending order, completed before the read of *)
(* index f faults.                                                         *)
ReadBefore(idx, f) == {i \in idx : i < f}

(* What a read of index i yields: the byte of the buffer, or, outside it,  *)
(* the byte wild[i] that happens to be there.                              *)
ByteAt(wild, i) == IF InBuf(i) THEN filecontents[i + 1] ELSE wild[i]

---------------------------------------------------------------------------
(* The source file, as loaded by lines 29-34 *)

RECURSIVE LE(_, _)
LE(v, n) == IF n = 0 THEN <<>> ELSE <<v % 256>> \o LE(v \div 256, n - 1)

Zeros(n) == [k \in 1..n |-> 0]

(* A file with the five header fields at their offsets, followed by data *)
MkFile(po, w, hh, bc, bb, data) ==
    <<66, 77>> \o Zeros(OffPaint - 2) \o LE(po, 4) \o Zeros(OffWidth - OffPaint - 4)
      \o LE(w, 4) \o LE(hh, 4) \o Zeros(OffBitcount - OffHeight - 4) \o LE(bc, 2)
      \o Zeros(OffBytebuffer - OffBitcount - 2) \o LE(bb, 4) \o data

MainIdle ==
    /\ pc = "idle"
    /\ filecontents = <<>>
    /\ filelen = 0
    /\ paintoffset = 0 /\ width = 0 /\ height = 0 /\ bitcount = 0 /\ bytebuffer = 0
    /\ pixelslen = 0 /\ outputlen = 0 /\ wastedpixelsperline = 0
    /\ outputcontents = <<>>
    /\ outAlloc = FALSE
    /\ j = 0 /\ h = 0 /\ offset = 0
    /\ fileFreed = FALSE
    /\ diag = <<>>
    /\ sink = <<>>
    /\ emitCount = 0
    /\ fault = "none"
    /\ reads = {}
    /\ rowOffs = <<>>
    /\ steps = <<>>

HiIdle ==
    /\ hiBuf = <<>> /\ hiOffset = 0 /\ hiLength = 0 /\ hiResult = 0
    /\ hiDone = FALSE

MapIdle ==
    /\ sym0 = 0 /\ symOnce = 0 /\ sym = 0 /\ applied = 0

Init ==
    /\ \E po \in PaintOffs, w \in 0..MaxW, hh \in 0..MaxH, bc \in Bitcounts,
          bb \in 0..MaxData, n \in 0..MaxData, short \in BOOLEAN :
         \E data \in [1..n -> PixelVals] :
            /\ short => n = 0
            /\ filecontents =
                  IF short THEN SubSeq(MkFile(po, w, hh, bc, bb, data), 1, ShortLen)
                  ELSE MkFile(po, w, hh, bc, bb, data)
            /\ filelen = IF short THEN ShortLen ELSE HeaderLen + n
    /\ pc = "start"
    /\ paintoffset = 0 /\ width = 0 /\ height = 0 /\ bitcount = 0 /\ bytebuffer = 0
    /\ pixelslen = 0 /\ outputlen = 0 /\ wastedpixelsperline = 0
    /\ outputcontents = <<>>
    /\ outAlloc = FALSE
    /\ j = 0 /\ h = 0 /\ offset = 0
    /\ fileFreed = FALSE
    /\ diag = <<>>
    /\ sink = <<>>
    /\ emitCount = 0
    /\ fault = "none"
    /\ reads = {}
    /\ rowOffs = <<>>
    /\ steps = <<>>
    /\ HiIdle
    /\ MapIdle

---------------------------------------------------------------------------
(* main *)

(* A fault: the process ends where it stands *)
Crash(why) ==
    /\ pc' = "crashed"
    /\ fault' = why

(* lines 36-40 *)
ReadHeader ==
    /\ pc = "start"
    /\ steps' = Append(steps, "ReadHeader")
    /\ \/ /\ \E f \in HdrIdx : ~InBuf(f) /\ reads' = reads \cup ReadBefore(HdrIdx, f)
          /\ Crash("hdr_read")
          /\ UNCHANGED <<paintoffset, width, height, bitcount, bytebuffer>>
       \/ \E wild \in [{i \in HdrIdx : ~InBuf(i)} -> WildVals] :
            LET mem == [i \in HdrIdx |-> ByteAt(wild, i)] IN
            /\ paintoffset' = hiread(mem, OffPaint, 4)
            /\ width' = hiread(mem, OffWidth, 4)
            /\ height' = hiread(mem, OffHeight, 4)
            /\ bitcount' = hiread(mem, OffBitcount, 2)
            /\ bytebuffer' = hiread(mem, OffBytebuffer, 4)
            /\ reads' = reads \cup HdrIdx
            /\ pc' = "validate"
            /\ fault' = fault
    /\ UNCHANGED <<filecontents, filelen, pixelslen, outputlen, wastedpixelsperline,
                   outputcontents, outAlloc, j, h, offset, fileFreed, diag, sink,
                   emitCount, rowOffs>>
    /\ UNCHANGED <<hiVars, mapVars>>

(* line 41 *)
Validate ==
    /\ pc = "validate"
    /\ steps' = Append(steps, "Validate")
    /\ IF BitcountOk(bitcount)
       THEN /\ pc' = "setup"
            /\ UNCHANGED <<diag, fileFreed>>
       ELSE /\ diag' = Append(diag, "needs to be 256 colors!")
            /\ fileFreed' = TRUE
            /\ pc' = "rejected"
    /\ UNCHANGED <<filecontents, filelen, paintoffset, width, height, bitcount,
                   bytebuffer, pixelslen, outputlen, wastedpixelsperline,
                   outputcontents, outAlloc, j, h, offset, sink, emitCount, fault,
                   reads, rowOffs>>
    /\ UNCHANGED <<hiVars, mapVars>>

(* lines 42-47: the lengths, the padding, the Output Buffer, the loop's start *)
SetupWith(wasted) ==
    /\ pixelslen' = bytebuffer
    /\ outputlen' = OutputLen(height, width)
    /\ wastedpixelsperline' = wasted
    /\ outputcontents' = [k \in 1..OutputLen(height, width) |-> Uninit]
    /\ outAlloc' = TRUE
    /\ j' = 0
    /\ h' = 1
    /\ offset' = FirstOffset(bytebuffer, width, paintoffset, wasted)
    /\ pc' = "extract"
    /\ fault' = fault

Setup ==
    /\ pc = "setup"
    /\ steps' = Append(steps, "Setup")
    /\ IF height # 0
       THEN SetupWith(Wasted(bytebuffer, width, height))
       ELSE \/ /\ Crash("div_zero")
               /\ pixelslen' = bytebuffer
               /\ outputlen' = OutputLen(height, width)
               /\ UNCHANGED <<wastedpixelsperline, outputcontents, outAlloc, j, h,
                              offset>>
            \/ SetupWith(0)
    /\ UNCHANGED <<filecontents, filelen, paintoffset, width, height, bitcount,
                   bytebuffer, fileFreed, diag, sink, emitCount, reads, rowOffs>>
    /\ UNCHANGED <<hiVars, mapVars>>

(* lines 47-53: one iteration of the outer loop, the whole inner loop *)
RowIdx == offset..(offset + width - 1)

ExtractRow ==
    /\ pc = "extract"
    /\ h <= height
    /\ steps' = Append(steps, "ExtractRow")
    /\ rowOffs' = Append(rowOffs, offset)
    /\ \/ /\ \E f \in RowIdx : ~InBuf(f) /\ reads' = reads \cup ReadBefore(RowIdx, f)
          /\ Crash("pix_read")
          /\ UNCHANGED <<outputcontents, j, h, offset>>
       \/ \E wild \in [{i \in RowIdx : ~InBuf(i)} -> WildVals] :
            /\ outputcontents' =
                  CopyRow(outputcontents, j,
                          [w \in 1..width |-> ByteAt(wild, offset + w - 1)])
            /\ j' = j + width
            /\ h' = h + 1
            /\ offset' = NextOffset(offset, width, wastedpixelsperline)
            /\ reads' = reads \cup RowIdx
            /\ UNCHANGED <<pc, fault>>
    /\ UNCHANGED <<filecontents, filelen, paintoffset, width, height, bitcount,
                   bytebuffer, pixelslen, outputlen, wastedpixelsperline, outAlloc,
                   fileFreed, diag, sink, emitCount>>
    /\ UNCHANGED <<hiVars, mapVars>>

(* line 54, reached when the loop condition h <= height fails *)
FreeFile ==
    /\ pc = "extract"
    /\ ~(h <= height)
    /\ steps' = Append(steps, "FreeFile")
    /\ fileFreed' = TRUE
    /\ pc' = "remap"
    /\ UNCHANGED <<filecontents, filelen, paintoffset, width, height, bitcount,
                   bytebuffer, pixelslen, outputlen, wastedpixelsperline,
                   outputcontents, outAlloc, j, h, offset, diag, sink, emitCount,
                   fault, reads, rowOffs>>
    /\ UNCHANGED <<hiVars, mapVars>>

(* lines 55-58 *)
Remap ==
    /\ pc = "remap"
    /\ steps' = Append(steps, "Remap")
    /\ outputcontents' = RemapAll(outputcontents, outputlen)
    /\ pc' = "emit"
    /\ UNCHANGED <<filecontents, filelen, paintoffset, width, height, bitcount,
                   bytebuffer, pixelslen, outputlen, wastedpixelsperline, outAlloc,
                   j, h, offset, fileFreed, diag, sink, emitCount, fault, reads,
                   rowOffs>>
    /\ UNCHANGED <<hiVars, mapVars>>

(* lines 59-64 *)
Emit ==
    /\ pc = "emit"
    /\ steps' = Append(steps, "Emit")
    /\ sink' = sink \o Written(outputcontents, outputlen)
    /\ emitCount' = emitCount + 1
    /\ diag' = Append(diag, "done!")
    /\ pc' = "done"
    /\ UNCHANGED <<filecontents, filelen, paintoffset, width, height, bitcount,
                   bytebuffer, pixelslen, outputlen, wastedpixelsperline,
                   outputcontents, outAlloc, j, h, offset, fileFreed, fault, reads,
                   rowOffs>>
    /\ UNCHANGED <<hiVars, mapVars>>

Next ==
    \/ ReadHeader
    \/ Validate
    \/ Setup
    \/ ExtractRow
    \/ FreeFile
    \/ Remap
    \/ Emit

Spec == Init /\ [][Next]_vars

---------------------------------------------------------------------------
(* hiread on its own: one call on a buffer, every read inside it *)

InitHiread ==
    /\ hiBuf \in [1..HiBufLen -> HiBytes]
    /\ hiLength \in 1..4
    /\ hiOffset \in 0..(HiBufLen - 1)
    /\ hiOffset + hiLength <= HiBufLen
    /\ hiResult = 0
    /\ hiDone = FALSE
    /\ MainIdle
    /\ MapIdle

CallHiread ==
    /\ ~hiDone
    /\ hiResult' = hiread([i \in 0..(HiBufLen - 1) |-> hiBuf[i + 1]], hiOffset, hiLength)
    /\ hiDone' = TRUE
    /\ UNCHANGED <<hiBuf, hiOffset, hiLength>>
    /\ UNCHANGED <<mainVars, mapVars>>

NextHiread == CallHiread

SpecHiread == InitHiread /\ [][NextHiread]_vars

---------------------------------------------------------------------------
(* The symbol mapping on its own: applied repeatedly to one byte *)

InitMap ==
    /\ sym0 \in Byte
    /\ sym = sym0
    /\ symOnce = sym0
    /\ applied = 0
    /\ MainIdle
    /\ HiIdle

ApplyMap ==
    /\ applied < MaxApply
    /\ sym' = Map(sym)
    /\ symOnce' = IF applied = 0 THEN Map(sym) ELSE symOnce
    /\ applied' = applied + 1
    /\ UNCHANGED sym0
    /\ UNCHANGED <<mainVars, hiVars>>

NextMap == ApplyMap

SpecMap == InitMap /\ [][NextMap]_vars

---------------------------------------------------------------------------
(* The terms of the claims *)

(* The five header fields have been decoded *)
Decoded == pc \notin {"idle", "start"} /\ fault # "hdr_read"

(* A consistent header: bytebuffer = height * (width + p) for some p >= 0, *)
(* and the pixel region lies inside the buffer.                            *)
Consistent ==
    /\ Decoded
    /\ filelen >= HeaderLen
    /\ width > 0
    /\ height > 0
    /\ bytebuffer % height = 0
    /\ bytebuffer \div height >= width
    /\ paintoffset >= 0
    /\ paintoffset + bytebuffer <= filelen

Pad == (bytebuffer \div height) - width

Stride == width + Pad

ClaimMap(x) == CASE x = 255 -> 0 [] x = 0 -> 1 [] OTHER -> 2

PixelData(n) == SubSeq(filecontents, paintoffset + 1, paintoffset + n)

RowStart(k) == paintoffset + bytebuffer - width - Pad - ((k - 1) * Stride)

RowReads == UNION {rowOffs[k]..(rowOffs[k] + width - 1) : k \in 1..Len(rowOffs)}

FullRun ==
    <<"ReadHeader", "Validate", "Setup">> \o [k \in 1..height |-> "ExtractRow"]
      \o <<"FreeFile", "Remap", "Emit">>

IsPrefix(s, t) == Len(s) <= Len(t) /\ s = SubSeq(t, 1, Len(s))

---------------------------------------------------------------------------
(* C1: for a consistent 8-bit input, output[r*width + c] is the mapping of *)
(* source[paintoffset + (height-1-r)*(width+p) + c]: rows are emitted in   *)
(* the reverse of their stored order, columns keep their order, padding is *)
(* never copied; and 2x2 with pixel data [FF,10,00,00] gives [01,01,00,02].*)
C1_RowOrderAndMapping ==
    (pc = "done" /\ Consistent /\ bitcount = 8) =>
        /\ Len(sink) = width * height
        /\ \A r \in 0..(height - 1), c \in 0..(width - 1) :
              sink[(r * width) + c + 1] =
                  ClaimMap(filecontents[paintoffset + ((height - 1 - r) * Stride) + c + 1])
        /\ (width = 2 /\ height = 2 /\ Pad = 0 /\ PixelData(4) = <<255, 16, 0, 0>>)
              => sink = <<1, 1, 0, 2>>

C1_Witness ==
    /\ pc = "done" /\ Consistent /\ bitcount = 8
    /\ width = 1 /\ height = 2 /\ Pad = 1
    /\ PixelData(4) = <<255, 16, 0, 16>>
    /\ sink = <<1, 0>>

(* C2: for a valid 8-bit input the emitted output has exactly width*height *)
(* bytes, the write index j ends at width*height, and every copied row     *)
(* starts on a row boundary, so that no padding byte is copied.            *)
C2_OutputLength ==
    (Consistent /\ bitcount = 8) =>
        /\ pc \in {"remap", "emit", "done"} =>
              /\ j = width * height
              /\ Len(rowOffs) = height
              /\ \A k \in 1..height : (rowOffs[k] - paintoffset) % Stride = 0
        /\ pc = "done" => Len(sink) = width * height

C2_Witness ==
    /\ pc = "done" /\ Consistent /\ bitcount = 8
    /\ width = 1 /\ height = 2 /\ Pad = 1 /\ j = 2 /\ Len(sink) = 2

(* C3: every emitted byte is one of 0x00, 0x01, 0x02 *)
C3_SymbolsOnly ==
    emitCount > 0 => \A k \in 1..Len(sink) : sink[k] \in {0, 1, 2}

C3_Witness ==
    /\ pc = "done"
    /\ {sink[k] : k \in 1..Len(sink)} = {0, 1, 2}
    /\ \E i \in reads : InBuf(i) /\ filecontents[i + 1] = 16

(* C4: a decoded bitcount other than 8 ends the conversion at the check of *)
(* line 41, with the diagnostic, before any extraction step, with no       *)
(* Output Buffer and nothing emitted.                                      *)
C4_RejectsNon8Bit ==
    (Decoded /\ pc # "validate" /\ bitcount # 8) =>
        /\ pc = "rejected"
        /\ diag = <<"needs to be 256 colors!">>
        /\ steps = <<"ReadHeader", "Validate">>
        /\ ~outAlloc /\ outputcontents = <<>>
        /\ rowOffs = <<>> /\ j = 0
        /\ emitCount = 0 /\ sink = <<>>

C4_Witness == pc = "rejected" /\ bitcount = 24 /\ diag # <<>>

(* C5: with bitcount 8, a height or width of 0 is rejected with a reported *)
(* error and no output, before the division by height is evaluated.        *)
C5_RejectsDegenerate ==
    (Decoded /\ pc \notin {"validate", "setup"} /\ bitcount = 8
       /\ (height = 0 \/ width = 0)) =>
        /\ pc = "rejected"
        /\ diag # <<>>
        /\ emitCount = 0
        /\ fault # "div_zero"

(* C6: every index used to read the Raw Image Buffer, by the header reads  *)
(* and by the pixel reads, lies in 0..filelen-1.                           *)
C6_ReadsInBounds == \A i \in reads : InBuf(i)

(* C7: hiread returns the unsigned little-endian value of its length bytes:*)
(* a non-negative number whose base-256 digits are those bytes.            *)
C7_UnsignedLittleEndian ==
    hiDone =>
        /\ hiResult >= 0
        /\ \A i \in 0..(hiLength - 1) :
              (hiResult \div (256^i)) % 256 = hiBuf[hiOffset + i + 1]
        /\ hiResult \div (256^(hiLength - 1)) <= 255

(* C8: the steps run in the order ReadHeader, Validate, Setup, height      *)
(* times ExtractRow, FreeFile, Remap, Emit; the sink receives data at most *)
(* once, and then the whole Output Buffer, every byte copied and remapped; *)
(* a run that is rejected or faults has emitted nothing.                   *)
C8_AllOrNothing ==
    /\ Decoded => IsPrefix(steps, FullRun)
    /\ emitCount <= 1
    /\ emitCount = 0 => sink = <<>>
    /\ pc \in {"rejected", "crashed"} => emitCount = 0
    /\ pc = "done" => emitCount = 1
    /\ emitCount = 1 =>
          /\ pc = "done"
          /\ steps = FullRun
          /\ j = outputlen
          /\ Len(sink) = outputlen
          /\ sink = outputcontents
          /\ \A k \in 1..Len(sink) : sink[k] \in {0, 1, 2}

C8_Witness ==
    /\ pc = "done" /\ emitCount = 1 /\ height = 2 /\ width = 2
    /\ Len(sink) = 4 /\ steps = FullRun

(* C9, as stated: applying the mapping twice gives what applying it once   *)
(* gives, for every byte.                                                  *)
C9_Idempotent == applied = 2 => sym = symOnce

(* C9, amended: applying the mapping twice gives what applying it once     *)
(* gives for every byte other than 0x00 and 0xFF; 0xFF goes to 0x00 and    *)
(* then to 0x01, 0x00 goes to 0x01 and then to 0x02.                       *)
C9_IdempotentOffEnds ==
    applied = 2 =>
        /\ sym0 \notin {0, 255} => sym = symOnce /\ sym = 2
        /\ sym0 = 255 => symOnce = 0 /\ sym = 1
        /\ sym0 = 0 => symOnce = 1 /\ sym = 2

C9_Witness == applied = 2 /\ sym0 = 16 /\ symOnce = 2 /\ sym = 2

(* C10: for a consistent 8-bit header, iteration k of the extraction loop  *)
(* reads at paintoffset + bytebuffer - width - p - (k-1)*(width+p), inside *)
(* the pixel region; the last iteration reads at paintoffset; each stored  *)
(* row is read once; the Raw Image Buffer is freed after the last row and  *)
(* nothing is read from it afterwards.                                     *)
C10_RowOffsets ==
    (Consistent /\ bitcount = 8) =>
        /\ fault = "none"
        /\ Len(rowOffs) <= height
        /\ \A k \in 1..Len(rowOffs) :
              /\ rowOffs[k] = RowStart(k)
              /\ rowOffs[k] >= paintoffset
              /\ rowOffs[k] + width <= paintoffset + bytebuffer
        /\ (pc = "extract" /\ h <= height) => offset = RowStart(h)
        /\ Len(rowOffs) = height => rowOffs[height] = paintoffset
        /\ pc \in {"remap", "emit", "done"} =>
              /\ Len(rowOffs) = height
              /\ {rowOffs[k] : k \in 1..height} =
                    {paintoffset + (r * Stride) : r \in 0..(height - 1)}
        /\ fileFreed =>
              /\ Len(rowOffs) = height
              /\ reads = HdrIdx \cup RowReads

C10_Witness ==
    /\ pc = "done" /\ Consistent /\ bitcount = 8 /\ fileFreed
    /\ height = 2 /\ Pad = 1
    /\ rowOffs = <<paintoffset + Stride, paintoffset>>

===========================================================================
